---- MODULE Spec2Model ----
(***************************************************************************)
(* dll: the dynamic convolutional layer (dyn_conv_layer.inl) and the       *)
(* patches layer (part_000).                                               *)
(*                                                                         *)
(* A size_t is recorded by the two's-complement reading s of its 64-bit    *)
(* pattern: the unsigned value is s when s >= 0 and 2^64 + s when s < 0.   *)
(* On these readings size_t +, - and * are integer +, - and * as long as   *)
(* the result stays within -2^63 .. 2^63-1, which the bounds below ensure. *)
(* A tensor is [dims, data]: its extents and its elements in row-major     *)
(* order; weights are integers and the activation is the rectifier, so     *)
(* that every sum is exact.                                                *)
(***************************************************************************)
EXTENDS Integers, Sequences, FiniteSets, TLC

\* ------------------------------------------------------------------ bounds
MaxC == 2        \* channels and filters passed to init_layer: 1..MaxC
MaxV == 2        \* input height/width passed to init_layer: 1..MaxV
MaxOver == 2     \* output height/width: 1..MaxV+MaxOver (beyond the input too)
MaxN == 2        \* batch sizes 1..MaxN
MaxWin == 3      \* patches_layer window height/width: 1..MaxWin
MaxStride == 2   \* patches_layer strides: 1..MaxStride
MaxImg == 6      \* image height/width given to patches_layer: 1..MaxImg

VARIABLES layer, init_args, ctx, last, p_desc, h_a, p_last

vars == <<layer, init_args, ctx, last, p_desc, h_a, p_last>>

\* ----------------------------------------------------------------- tensors
RECURSIVE Product(_)
Product(dims) == IF dims = <<>> THEN 1 ELSE Head(dims) * Product(Tail(dims))

RECURSIVE SumTo(_, _)
\* sum of f[i] for i in 0..n-1
SumTo(f, n) == IF n <= 0 THEN 0 ELSE f[n - 1] + SumTo(f, n - 1)

\* The element values the model draws for data it does not compute.
SampleValue(seed, i) == (((i + seed) * (seed + 1)) % 3) - 1

\* etl::dyn_matrix(extents...) / etl::dyn_vector(extent): how the construction
\* can end.  The element count is the product of the extents in size_t
\* arithmetic.  A count whose reading is negative is 2^63 elements or more,
\* which only extents wrapped by out-of-range dimension arithmetic give; the
\* construction is then undefined behaviour: it may return, throw, or end
\* the process.
ConstructionOutcomes(dims) ==
    IF Product(dims) >= 0 THEN {"ok"} ELSE {"ok", "exception", "crash"}

\* A constructed tensor of these extents with the drawn contents.
Filled(dims, seed) ==
    [dims |-> dims, data |-> [i \in 1..Product(dims) |-> SampleValue(seed, i)]]

\* A constructed tensor of these extents, value-initialized.
Zeros(dims) == [dims |-> dims, data |-> [i \in 1..Product(dims) |-> 0]]

Backed(t) == Product(t.dims) >= 0 /\ Len(t.data) = Product(t.dims)

Positive(t) == \A d \in 1..Len(t.dims) : t.dims[d] >= 1

\* 0-based element access
At1(t, f) == t.data[f + 1]
At3(t, c, i, j) == t.data[(c * t.dims[2] + i) * t.dims[3] + j + 1]
At4(t, n, c, i, j) ==
    t.data[((n * t.dims[2] + c) * t.dims[3] + i) * t.dims[4] + j + 1]

\* ------------------------------------------------- tensor backend (etl)
\* etl::reshape: the same elements under other extents.
reshape(t, dims) == [dims |-> dims, data |-> t.data]

\* etl::rep(b, d1, d2): extents (len(b), d1, d2), element (f, i, j) = b(f).
rep(b, d1, d2) ==
    [dims |-> <<b.dims[1], d1, d2>>,
     data |-> [p \in 1..(b.dims[1] * d1 * d2) |-> At1(b, (p - 1) \div (d1 * d2))]]

\* etl::rep_l(x, n): extents (n, dims(x)...), element (m, rest) = x(rest).
rep_l(x, n) ==
    [dims |-> <<n>> \o x.dims,
     data |-> [p \in 1..(n * Product(x.dims)) |->
                  x.data[((p - 1) % Product(x.dims)) + 1]]]

\* element-wise x + y and x >> y (product) of tensors of equal extents
Plus(x, y) == [dims |-> x.dims, data |-> [p \in 1..Len(x.data) |-> x.data[p] + y.data[p]]]
Times(x, y) == [dims |-> x.dims, data |-> [p \in 1..Len(x.data) |-> x.data[p] * y.data[p]]]

\* etl::conv_4d_valid_flipped(v, w): v is (N, C, H, W), w is (K, C, m1, m2);
\* the result is (N, K, H-m1+1, W-m2+1) with
\*   r(n, f, i, j) = sum over c, a, b of v(n, c, i+a, j+b) * w(f, c, a, b).
conv_4d_valid_flipped(v, w) ==
    LET N == v.dims[1]  C == v.dims[2]
        K == w.dims[1]  m1 == w.dims[3]  m2 == w.dims[4]
        h1 == v.dims[3] - m1 + 1
        h2 == v.dims[4] - m2 + 1
        el(p) ==
            LET j == p % h2
                i == (p \div h2) % h1
                f == (p \div (h2 * h1)) % K
                n == p \div (h2 * h1 * K)
            IN SumTo([q \in 0..(C * m1 * m2 - 1) |->
                        LET b == q % m2
                            a == (q \div m2) % m1
                            c == q \div (m2 * m1)
                        IN At4(v, n, c, i + a, j + b) * At4(w, f, c, a, b)],
                     C * m1 * m2)
    IN [dims |-> <<N, K, h1, h2>>,
        data |-> [p \in 1..(N * K * h1 * h2) |-> el(p - 1)]]

\* etl::conv_4d_full_flipped(e, w): e is (N, K, h1, h2), w is (K, C, m1, m2);
\* the result is (N, C, h1+m1-1, h2+m2-1) with
\*   r(n, c, i, j) = sum over f, a, b of e(n, f, i-a, j-b) * w(f, c, m1-1-a, m2-1-b)
\* over the (a, b) for which (i-a, j-b) lies in e.
conv_4d_full_flipped(e, w) ==
    LET N == e.dims[1]  K == e.dims[2]  h1 == e.dims[3]  h2 == e.dims[4]
        C == w.dims[2]  m1 == w.dims[3]  m2 == w.dims[4]
        v1 == h1 + m1 - 1
        v2 == h2 + m2 - 1
        el(p) ==
            LET j == p % v2
                i == (p \div v2) % v1
                c == (p \div (v2 * v1)) % C
                n == p \div (v2 * v1 * C)
            IN SumTo([q \in 0..(K * m1 * m2 - 1) |->
                        LET b == q % m2
                            a == (q \div m2) % m1
                            f == q \div (m2 * m1)
                        IN IF i - a >= 0 /\ i - a < h1 /\ j - b >= 0 /\ j - b < h2
                           THEN At4(e, n, f, i - a, j - b)
                                * At4(w, f, c, m1 - 1 - a, m2 - 1 - b)
                           ELSE 0],
                     K * m1 * m2)
    IN [dims |-> <<N, C, v1, v2>>,
        data |-> [p \in 1..(N * C * v1 * v2) |-> el(p - 1)]]

\* etl::conv_4d_valid_filter_flipped(x, e): x is (N, C, H, W), e is
\* (N, K, h1, h2); the result is (K, C, H-h1+1, W-h2+1) with
\*   r(f, c, a, b) = sum over n, i, j of x(n, c, a+i, b+j) * e(n, f, i, j).
conv_4d_valid_filter_flipped(x, e) ==
    LET N == x.dims[1]  C == x.dims[2]
        K == e.dims[2]  h1 == e.dims[3]  h2 == e.dims[4]
        m1 == x.dims[3] - h1 + 1
        m2 == x.dims[4] - h2 + 1
        el(p) ==
            LET b == p % m2
                a == (p \div m2) % m1
                c == (p \div (m2 * m1)) % C
                f == p \div (m2 * m1 * C)
            IN SumTo([q \in 0..(N * h1 * h2 - 1) |->
                        LET j == q % h2
                            i == (q \div h2) % h1
                            n == q \div (h2 * h1)
                        IN At4(x, n, c, a + i, b + j) * At4(e, n, f, i, j)],
                     N * h1 * h2)
    IN [dims |-> <<K, C, m1, m2>>,
        data |-> [p \in 1..(K * C * m1 * m2) |-> el(p - 1)]]

\* etl::sum_l(e): the sum over the first (leftmost) dimension; e is
\* (N, K, h1, h2) and the result (K, h1, h2).
sum_l(e) ==
    LET N == e.dims[1]
        rest == Tail(e.dims)
        sz == Product(rest)
    IN [dims |-> rest,
        data |-> [p \in 1..sz |->
                    SumTo([n \in 0..(N - 1) |-> e.data[n * sz + p]], N)]]

\* etl::mean_r(x): the mean over every dimension but the first; x is
\* (K, h1, h2) and the result has K entries.  An entry is the exact
\* fraction [num, den] (the weight type is a floating-point type).
mean_r(x) ==
    LET K == x.dims[1]
        sz == Product(Tail(x.dims))
    IN [dims |-> <<K>>,
        data |-> [p \in 1..K |->
                    [num |-> SumTo([q \in 0..(sz - 1) |-> x.data[(p - 1) * sz + q + 1]], sz),
                     den |-> sz]]]

\* ------------------------------------------ activation and initializers
\* f_activate<activation_function>: the rectifier, element-wise.
f_activate(x) ==
    [dims |-> x.dims,
     data |-> [p \in 1..Len(x.data) |-> IF x.data[p] > 0 THEN x.data[p] ELSE 0]]

\* f_derivative<activation_function>, of the activation's output.
f_derivative(x) ==
    [dims |-> x.dims,
     data |-> [p \in 1..Len(x.data) |-> IF x.data[p] > 0 THEN 1 ELSE 0]]

\* initializer_function<...>::initialize(t, nin, nout): every element of t
\* is overwritten by the initializer's draw.
initialize(t, nin, nout, seed) == Filled(t.dims, seed)

\* ---------------------------------------------------- dyn_conv_layer
\* What the eight uninitialized size_t members may hold (nv1, nv2, nh1, nh2,
\* nc, k, nw1, nw2): zeroed memory, or whatever the memory held before.
Garbage == { <<0, 0, 0, 0, 0, 0, 0, 0>>,
             <<1, 1, 1, 1, 1, 1, 1, 1>>,
             <<3, 2, 1, 2, 1, 2, 0, 7>> }

\* A default-constructed etl::dyn_matrix of the given rank: no extents, no
\* elements.
EmptyTensor(rank) == [dims |-> [d \in 1..rank |-> 0], data |-> <<>>]

\* dyn_conv_layer(): w and b are default-constructed, the backups are null
\* and the eight size_t members are left uninitialized.
FreshLayers ==
    { [nv1 |-> g[1], nv2 |-> g[2], nh1 |-> g[3], nh2 |-> g[4],
       nc |-> g[5], k |-> g[6], nw1 |-> g[7], nw2 |-> g[8],
       w |-> EmptyTensor(4), b |-> EmptyTensor(1),
       bak_w |-> "nullptr", bak_b |-> "nullptr"] : g \in Garbage }

input_size(l) == l.nc * l.nv1 * l.nv2

\* output_size() with the filter extents in place of the output extents.
output_size_of_filters(l) == l.k * l.nw1 * l.nw2

output_size(l) == l.k * l.nh1 * l.nh2

parameters(l) == l.k * l.nw1 * l.nw2

\* init_layer with the filter extents computed as nv - nh.
init_layer_no_plus_one(l, a, seed) ==
    LET l1 == [l EXCEPT !.nv1 = a.nv1, !.nv2 = a.nv2, !.nh1 = a.nh1,
                        !.nh2 = a.nh2, !.nc = a.nc, !.k = a.k]
        l2 == [l1 EXCEPT !.nw1 = a.nv1 - a.nh1, !.nw2 = a.nv2 - a.nh2]
        l3 == [l2 EXCEPT !.w = Zeros(<<a.k, a.nc, l2.nw1, l2.nw2>>)]
        l4 == [l3 EXCEPT !.b = Zeros(<<a.k>>)]
        l5 == [l4 EXCEPT !.w = initialize(l4.w, input_size(l4), output_size(l4), seed)]
        l6 == [l5 EXCEPT !.b = initialize(l5.b, input_size(l5), output_size(l5), seed + 1)]
    IN LET failed(o, lx) == [outcome |-> o, layer |-> lx,
                             w_hints |-> <<>>, b_hints |-> <<>>]
           completed == [outcome |-> "ok", layer |-> l6,
                         w_hints |-> <<input_size(l4), output_size(l4)>>,
                         b_hints |-> <<input_size(l5), output_size(l5)>>]
           w_ends == ConstructionOutcomes(<<a.k, a.nc, l2.nw1, l2.nw2>>)
           b_ends == ConstructionOutcomes(<<a.k>>)
       IN { failed(o, l2) : o \in w_ends \ {"ok"} }
          \cup (IF "ok" \in w_ends
                THEN { failed(o, l3) : o \in b_ends \ {"ok"} }
                     \cup (IF "ok" \in b_ends THEN {completed} ELSE {})
                ELSE {})

\* init_layer that resizes the biases in place, keeping the elements the old
\* vector already had, and initializes only the new ones.
init_layer_resize(l, a, seed) ==
    LET l1 == [l EXCEPT !.nv1 = a.nv1, !.nv2 = a.nv2, !.nh1 = a.nh1,
                        !.nh2 = a.nh2, !.nc = a.nc, !.k = a.k]
        l2 == [l1 EXCEPT !.nw1 = a.nv1 - a.nh1 + 1, !.nw2 = a.nv2 - a.nh2 + 1]
        l3 == [l2 EXCEPT !.w = Zeros(<<a.k, a.nc, l2.nw1, l2.nw2>>)]
        l5 == [l3 EXCEPT !.w = initialize(l3.w, input_size(l3), output_size(l3), seed)]
        fresh == initialize(Zeros(<<a.k>>), input_size(l5), output_size(l5), seed + 1)
        l6 == [l5 EXCEPT !.b = [dims |-> <<a.k>>,
                                data |-> [i \in 1..a.k |->
                                            IF i <= Len(l.b.data) THEN l.b.data[i]
                                            ELSE fresh.data[i]]]]
    IN LET failed(o, lx) == [outcome |-> o, layer |-> lx,
                             w_hints |-> <<>>, b_hints |-> <<>>]
           completed == [outcome |-> "ok", layer |-> l6,
                         w_hints |-> <<input_size(l3), output_size(l3)>>,
                         b_hints |-> <<input_size(l5), output_size(l5)>>]
           w_ends == ConstructionOutcomes(<<a.k, a.nc, l2.nw1, l2.nw2>>)
           b_ends == ConstructionOutcomes(<<a.k>>)
       IN { failed(o, l2) : o \in w_ends \ {"ok"} }
          \cup (IF "ok" \in w_ends
                THEN { failed(o, l3) : o \in b_ends \ {"ok"} }
                     \cup (IF "ok" \in b_ends THEN {completed} ELSE {})
                ELSE {})

\* init_layer with the filter extents clamped at 0 instead of wrapping.
init_layer_clamped(l, a, seed) ==
    LET l1 == [l EXCEPT !.nv1 = a.nv1, !.nv2 = a.nv2, !.nh1 = a.nh1,
                        !.nh2 = a.nh2, !.nc = a.nc, !.k = a.k]
        l2 == [l1 EXCEPT !.nw1 = IF a.nv1 - a.nh1 + 1 < 0 THEN 0 ELSE a.nv1 - a.nh1 + 1,
                         !.nw2 = IF a.nv2 - a.nh2 + 1 < 0 THEN 0 ELSE a.nv2 - a.nh2 + 1]
        l3 == [l2 EXCEPT !.w = Zeros(<<a.k, a.nc, l2.nw1, l2.nw2>>)]
        l4 == [l3 EXCEPT !.b = Zeros(<<a.k>>)]
        l5 == [l4 EXCEPT !.w = initialize(l4.w, input_size(l4), output_size(l4), seed)]
        l6 == [l5 EXCEPT !.b = initialize(l5.b, input_size(l5), output_size(l5), seed + 1)]
    IN LET failed(o, lx) == [outcome |-> o, layer |-> lx,
                             w_hints |-> <<>>, b_hints |-> <<>>]
           completed == [outcome |-> "ok", layer |-> l6,
                         w_hints |-> <<input_size(l4), output_size(l4)>>,
                         b_hints |-> <<input_size(l5), output_size(l5)>>]
           w_ends == ConstructionOutcomes(<<a.k, a.nc, l2.nw1, l2.nw2>>)
           b_ends == ConstructionOutcomes(<<a.k>>)
       IN { failed(o, l2) : o \in w_ends \ {"ok"} }
          \cup (IF "ok" \in w_ends
                THEN { failed(o, l3) : o \in b_ends \ {"ok"} }
                     \cup (IF "ok" \in b_ends THEN {completed} ELSE {})
                ELSE {})

\* init_layer(nc, nv1, nv2, k, nh1, nh2): a holds the arguments; the result
\* is the set of ways the call can end, each with the layer it leaves and
\* the hints the two initializers were called with.  The fields are assigned
\* first.  A construction of w (of b) that does not return ends the call at
\* that statement: the assignment and the statements after it do not run.
init_layer(l, a, seed) ==
    LET l1 == [l EXCEPT !.nv1 = a.nv1, !.nv2 = a.nv2, !.nh1 = a.nh1,
                        !.nh2 = a.nh2, !.nc = a.nc, !.k = a.k]
        l2 == [l1 EXCEPT !.nw1 = a.nv1 - a.nh1 + 1, !.nw2 = a.nv2 - a.nh2 + 1]
        l3 == [l2 EXCEPT !.w = Zeros(<<a.k, a.nc, l2.nw1, l2.nw2>>)]
        l4 == [l3 EXCEPT !.b = Zeros(<<a.k>>)]
        l5 == [l4 EXCEPT !.w = initialize(l4.w, input_size(l4), output_size(l4), seed)]
        l6 == [l5 EXCEPT !.b = initialize(l5.b, input_size(l5), output_size(l5), seed + 1)]
    IN LET failed(o, lx) == [outcome |-> o, layer |-> lx,
                             w_hints |-> <<>>, b_hints |-> <<>>]
           completed == [outcome |-> "ok", layer |-> l6,
                         w_hints |-> <<input_size(l4), output_size(l4)>>,
                         b_hints |-> <<input_size(l5), output_size(l5)>>]
           w_ends == ConstructionOutcomes(<<a.k, a.nc, l2.nw1, l2.nw2>>)
           b_ends == ConstructionOutcomes(<<a.k>>)
       IN { failed(o, l2) : o \in w_ends \ {"ok"} }
          \cup (IF "ok" \in w_ends
                THEN { failed(o, l3) : o \in b_ends \ {"ok"} }
                     \cup (IF "ok" \in b_ends THEN {completed} ELSE {})
                ELSE {})

\* activate_hidden(output, v), one sample: the value output holds afterwards.
activate_hidden(l, output, v) ==
    LET b_rep == rep(l.b, l.nh1, l.nh2)
        conv == conv_4d_valid_flipped(reshape(v, <<1, l.nc, l.nv1, l.nv2>>), l.w)
        out1 == [dims |-> output.dims, data |-> conv.data]
    IN f_activate(Plus(b_rep, out1))

\* batch_activate_hidden that replicates the bias along the wrong side, so
\* that the bias of an element follows its position and not its filter.
batch_activate_hidden_bias_by_position(l, output, v) ==
    LET out1 == conv_4d_valid_flipped(v, l.w)
        n == Product(out1.dims)
        b_rep == [dims |-> out1.dims,
                  data |-> [p \in 1..n |-> l.b.data[((p - 1) % l.b.dims[1]) + 1]]]
    IN f_activate(Plus(b_rep, out1))

\* batch_activate_hidden(output, v): the value output holds afterwards.
batch_activate_hidden(l, output, v) ==
    LET out1 == conv_4d_valid_flipped(v, l.w)
        b_rep == rep_l(rep(l.b, l.nh1, l.nh2), out1.dims[1])
    IN f_activate(Plus(b_rep, out1))

\* prepare_input(input): the value input holds afterwards.
prepare_input(l) == Zeros(<<l.nc, l.nv1, l.nv2>>)

\* prepare_one_output()
prepare_one_output(l) == Zeros(<<l.k, l.nh1, l.nh2>>)

\* prepare_output(samples)
prepare_output(l, samples) ==
    [i \in 1..samples |-> Zeros(<<l.k, l.nh1, l.nh2>>)]

\* sgd_context(nc, nv1, nv2, k, nh1, nh2) for batches of n samples.
sgd_context(l, n) ==
    [input  |-> Zeros(<<n, l.nc, l.nv1, l.nv2>>),
     output |-> Zeros(<<n, l.k, l.nh1, l.nh2>>),
     errors |-> Zeros(<<n, l.k, l.nh1, l.nh2>>),
     w_grad |-> Zeros(<<l.k, l.nc, l.nv1 - l.nh1 + 1, l.nv2 - l.nh2 + 1>>),
     b_grad |-> Zeros(<<l.k>>)]

\* adapt_errors that also leaves the derivative in the stored output.
adapt_errors_overwrites_output(l, c) ==
    [c EXCEPT !.output = f_derivative(c.output),
              !.errors = Times(f_derivative(c.output), c.errors)]

\* adapt_errors(context): the context afterwards.
adapt_errors(l, c) ==
    [c EXCEPT !.errors = Times(f_derivative(c.output), c.errors)]

\* backward_batch(output, context): the value output holds afterwards.
backward_batch(l, c) == conv_4d_full_flipped(c.errors, l.w)

\* compute_gradients whose bias gradient is also averaged over the batch.
compute_gradients_batch_mean(l, c) ==
    LET c1 == [c EXCEPT !.w_grad = conv_4d_valid_filter_flipped(c.input, c.errors)]
        m == mean_r(sum_l(c1.errors))
    IN [c1 EXCEPT !.b_grad =
            [dims |-> m.dims,
             data |-> [p \in 1..Len(m.data) |->
                         [num |-> m.data[p].num,
                          den |-> m.data[p].den * c1.errors.dims[1]]]]]

\* compute_gradients(context): the context afterwards.
compute_gradients(l, c) ==
    LET c1 == [c EXCEPT !.w_grad = conv_4d_valid_filter_flipped(c.input, c.errors)]
    IN [c1 EXCEPT !.b_grad = mean_r(sum_l(c1.errors))]

\* ------------------------------------------- when the backend is defined
\* The backend checks no extents (its assertions are compiled out), so an
\* operation is defined only on operands that fit together.
ForwardDefined(l) ==
    /\ Backed(l.w) /\ Backed(l.b) /\ Positive(l.w) /\ Positive(l.b)
    /\ l.nc >= 1 /\ l.nh1 >= 1 /\ l.nh2 >= 1
    /\ l.w.dims[2] = l.nc
    /\ l.w.dims[1] = l.k /\ l.b.dims[1] = l.k
    /\ l.nv1 - l.w.dims[3] + 1 = l.nh1
    /\ l.nv2 - l.w.dims[4] + 1 = l.nh2

AdaptDefined(c) ==
    /\ Backed(c.output) /\ Backed(c.errors)
    /\ c.output.dims = c.errors.dims

BackwardDefined(l, c) ==
    /\ Backed(c.errors) /\ Positive(c.errors)
    /\ Backed(l.w) /\ Positive(l.w)
    /\ c.errors.dims[2] = l.w.dims[1]

GradientsDefined(c) ==
    /\ Backed(c.input) /\ Positive(c.input)
    /\ Backed(c.errors) /\ Positive(c.errors)
    /\ c.input.dims[1] = c.errors.dims[1]
    /\ c.input.dims[3] >= c.errors.dims[3]
    /\ c.input.dims[4] >= c.errors.dims[4]

\* ------------------------------------------------------------ the driver
NoArgs == [op |-> "none"]
NoCtx == [kind |-> "none"]
NoDesc == [kind |-> "none"]
Idle == [op |-> "none", outcome |-> "ok"]

\* A call that crashed has ended the process: no call follows it.
Alive == last.outcome # "crash"

\* The sample contents the model draws: SampleValue(0, _) and (1, _).
Seeds == {0, 1}

ArgSets ==
    [nc : 1..MaxC, nv1 : 1..MaxV, nv2 : 1..MaxV,
     k : 1..MaxC, nh1 : 1..(MaxV + MaxOver), nh2 : 1..(MaxV + MaxOver)]

ValidArgs == { a \in ArgSets : a.nv1 >= a.nh1 /\ a.nv2 >= a.nh2 }

Init ==
    /\ layer \in FreshLayers
    /\ init_args = NoArgs
    /\ ctx = NoCtx
    /\ last = Idle
    /\ p_desc = NoDesc
    /\ h_a = <<>>
    /\ p_last = Idle

PatchesIdle == UNCHANGED <<p_desc, h_a, p_last>>

\* init_layer, called on a layer in any state.
InitLayer(a, seed) ==
    /\ Alive
    /\ \E r \in init_layer(layer, a, seed) :
          /\ layer' = r.layer
          /\ last' = [op |-> "init_layer", outcome |-> r.outcome,
                      again |-> (init_args # NoArgs),
                      w_hints |-> r.w_hints,
                      b_hints |-> r.b_hints]
    /\ init_args' = [op |-> "init_layer", a |-> a, seed |-> seed]
       /\ UNCHANGED ctx
       /\ PatchesIdle

\* The container's one init_layer call, made before it creates a training
\* context.
InitLayerOnce(a, seed) ==
    /\ init_args = NoArgs
    /\ ctx = NoCtx
    /\ InitLayer(a, seed)

\* The driver makes its size, prepare and forward calls before it creates
\* the training context (ctx = NoCtx), its training calls afterwards.
InputSize ==
    /\ Alive
    /\ ctx = NoCtx
    /\ last' = [op |-> "input_size", outcome |-> "ok", ret |-> input_size(layer)]
    /\ UNCHANGED <<layer, init_args, ctx>>
    /\ PatchesIdle

OutputSize ==
    /\ Alive
    /\ ctx = NoCtx
    /\ last' = [op |-> "output_size", outcome |-> "ok", ret |-> output_size(layer)]
    /\ UNCHANGED <<layer, init_args, ctx>>
    /\ PatchesIdle

Parameters ==
    /\ Alive
    /\ ctx = NoCtx
    /\ last' = [op |-> "parameters", outcome |-> "ok", ret |-> parameters(layer)]
    /\ UNCHANGED <<layer, init_args, ctx>>
    /\ PatchesIdle

PrepareInput ==
    /\ Alive
    /\ ctx = NoCtx
    /\ last' = [op |-> "prepare_input", outcome |-> "ok",
                ret |-> prepare_input(layer)]
    /\ UNCHANGED <<layer, init_args, ctx>>
    /\ PatchesIdle

PrepareOneOutput ==
    /\ Alive
    /\ ctx = NoCtx
    /\ last' = [op |-> "prepare_one_output", outcome |-> "ok",
                ret |-> prepare_one_output(layer)]
    /\ UNCHANGED <<layer, init_args, ctx>>
    /\ PatchesIdle

PrepareOutput(samples) ==
    /\ Alive
    /\ ctx = NoCtx
    /\ last' = [op |-> "prepare_output", outcome |-> "ok",
                ret |-> prepare_output(layer, samples)]
    /\ UNCHANGED <<layer, init_args, ctx>>
    /\ PatchesIdle

\* What a call outside the backend's defined domain may leave behind: the
\* process dies, or the call returns with whatever it wrote.
Undefined(op, dims) ==
    { [op |-> op, outcome |-> "crash"],
      [op |-> op, outcome |-> "ok", out |-> Filled(dims, 0)] }

\* The caller passes one sample of the layer's input extents and an output
\* it prepared with prepare_one_output.
ActivateHidden(seed) ==
    /\ Alive
    /\ ctx = NoCtx
    /\ IF ForwardDefined(layer)
       THEN LET v == Filled(<<layer.nc, layer.nv1, layer.nv2>>, seed)
            IN last' = [op |-> "activate_hidden", outcome |-> "ok", in |-> v,
                        out |-> activate_hidden(layer, prepare_one_output(layer), v)]
       ELSE last' \in Undefined("activate_hidden", <<layer.k, layer.nh1, layer.nh2>>)
    /\ UNCHANGED <<layer, init_args, ctx>>
    /\ PatchesIdle

\* The caller passes a batch of n samples of the layer's input extents.
BatchActivateHidden(n, seed) ==
    /\ Alive
    /\ ctx = NoCtx
    /\ IF ForwardDefined(layer)
       THEN LET v == Filled(<<n, layer.nc, layer.nv1, layer.nv2>>, seed)
            IN last' = [op |-> "batch_activate_hidden", outcome |-> "ok", in |-> v,
                        out |-> batch_activate_hidden(layer, Zeros(<<0, 0, 0, 0>>), v)]
       ELSE last' \in Undefined("batch_activate_hidden",
                                <<n, layer.k, layer.nh1, layer.nh2>>)
    /\ UNCHANGED <<layer, init_args, ctx>>
    /\ PatchesIdle

InitSgdContext(n) ==
    /\ Alive
    /\ ctx = NoCtx
    /\ ctx' = sgd_context(layer, n)
    /\ last' = [op |-> "init_sgd_context", outcome |-> "ok"]
    /\ UNCHANGED <<layer, init_args>>
    /\ PatchesIdle

\* The trainer stores a batch, its forward output and the errors that came
\* back from the next layer.
FillContext ==
    /\ Alive
    /\ ctx # NoCtx
    /\ ctx' = [ctx EXCEPT !.input = Filled(ctx.input.dims, 1),
                          !.output = Filled(ctx.output.dims, 1),
                          !.errors = Filled(ctx.errors.dims, 0)]
    /\ last' = [op |-> "fill_context", outcome |-> "ok"]
    /\ UNCHANGED <<layer, init_args>>
    /\ PatchesIdle

AdaptErrors ==
    /\ Alive
    /\ ctx # NoCtx
    /\ IF AdaptDefined(ctx)
       THEN /\ ctx' = adapt_errors(layer, ctx)
            /\ last' = [op |-> "adapt_errors", outcome |-> "ok"]
       ELSE \/ /\ ctx' = ctx
               /\ last' = [op |-> "adapt_errors", outcome |-> "crash"]
            \/ /\ ctx' = [ctx EXCEPT !.errors = Filled(ctx.errors.dims, 0)]
               /\ last' = [op |-> "adapt_errors", outcome |-> "ok"]
    /\ UNCHANGED <<layer, init_args>>
    /\ PatchesIdle

BackwardBatch ==
    /\ Alive
    /\ ctx # NoCtx
    /\ IF BackwardDefined(layer, ctx)
       THEN last' = [op |-> "backward_batch", outcome |-> "ok",
                     out |-> backward_batch(layer, ctx)]
       ELSE last' \in Undefined("backward_batch", ctx.input.dims)
    /\ UNCHANGED <<layer, init_args, ctx>>
    /\ PatchesIdle

ComputeGradients ==
    /\ Alive
    /\ ctx # NoCtx
    /\ IF GradientsDefined(ctx)
       THEN /\ ctx' = compute_gradients(layer, ctx)
            /\ last' = [op |-> "compute_gradients", outcome |-> "ok"]
       ELSE \/ /\ ctx' = ctx
               /\ last' = [op |-> "compute_gradients", outcome |-> "crash"]
            \/ /\ ctx' = [ctx EXCEPT !.w_grad = Filled(ctx.w_grad.dims, 0),
                                     !.b_grad = Filled(ctx.b_grad.dims, 0)]
               /\ last' = [op |-> "compute_gradients", outcome |-> "ok"]
    /\ UNCHANGED <<layer, init_args>>
    /\ PatchesIdle

Next ==
    \/ \E a \in ValidArgs, seed \in Seeds : InitLayerOnce(a, seed)
    \/ InputSize
    \/ OutputSize
    \/ Parameters
    \/ PrepareInput
    \/ PrepareOneOutput
    \/ \E n \in 1..MaxN : PrepareOutput(n)
    \/ \E seed \in Seeds : ActivateHidden(seed)
    \/ \E n \in 1..MaxN, seed \in Seeds : BatchActivateHidden(n, seed)
    \/ \E n \in 1..MaxN : InitSgdContext(n)
    \/ FillContext
    \/ AdaptErrors
    \/ BackwardBatch
    \/ ComputeGradients

Spec == Init /\ [][Next]_vars

\* A second driver: the container configures the layer again and again.
NextConfig == \E a \in ValidArgs, seed \in Seeds : InitLayer(a, seed)

SpecConfig == Init /\ [][NextConfig]_vars

\* A third driver: one init_layer call with arguments the caller did not
\* validate, then the size queries.
NextUnchecked ==
    \/ \E a \in ArgSets, seed \in Seeds : InitLayerOnce(a, seed)
    \/ InputSize
    \/ OutputSize
    \/ Parameters
    \/ PrepareOneOutput

SpecUnchecked == Init /\ [][NextUnchecked]_vars

\* ------------------------------------------------------- patches_layer
\* The patch at window position (y, x): the inner yy/xx loops.
PatchAt(d, input, y, x) ==
    [dims |-> <<1, d.height, d.width>>,
     data |-> [p \in 1..(d.height * d.width) |->
                  At3(input, 0, y + ((p - 1) \div d.width), x + ((p - 1) % d.width))]]

RECURSIVE PatchRow(_, _, _, _)
\* for (x; x + width <= dim<2>(input); x += h_stride)
PatchRow(d, input, y, x) ==
    IF x + d.width <= input.dims[3]
    THEN <<PatchAt(d, input, y, x)>> \o PatchRow(d, input, y, x + d.h_stride)
    ELSE <<>>

RECURSIVE PatchRows(_, _, _)
\* for (y; y + height <= dim<1>(input); y += v_stride)
PatchRows(d, input, y) ==
    IF y + d.height <= input.dims[2]
    THEN PatchRow(d, input, y, 0) \o PatchRows(d, input, y + d.v_stride)
    ELSE <<>>

\* activate_hidden without the clear(): the patches are appended.
patches_activate_hidden_no_clear(d, out, input) == out \o PatchRows(d, input, 0)

\* patches_layer::activate_hidden(h_a, input): the value h_a holds afterwards.
patches_activate_hidden(d, out, input) ==
    LET cleared == SubSeq(out, 1, 0)
    IN cleared \o PatchRows(d, input, 0)

Descs ==
    [width : 1..MaxWin, height : 1..MaxWin,
     v_stride : 1..MaxStride, h_stride : 1..MaxStride]

\* A single-channel image whose pixels all differ.
Image(h, w) == [dims |-> <<1, h, w>>, data |-> [i \in 1..(h * w) |-> 10 + i]]

InitPatches ==
    /\ layer = CHOOSE l \in FreshLayers : l.nv1 = 0 /\ l.k = 0
    /\ init_args = NoArgs
    /\ ctx = NoCtx
    /\ last = Idle
    /\ p_desc \in Descs
    /\ h_a = <<>>
    /\ p_last = Idle

\* The caller passes a single-channel image (the cpp_assert).
PatchesActivateHidden(h, w) ==
    /\ Image(h, w).dims[1] = 1
    /\ h_a' = patches_activate_hidden(p_desc, h_a, Image(h, w))
    /\ p_last' = [op |-> "activate_hidden", outcome |-> "ok", in |-> Image(h, w)]
    /\ UNCHANGED <<layer, init_args, ctx, last, p_desc>>

NextPatches ==
    \E h \in 1..MaxImg, w \in 1..MaxImg : PatchesActivateHidden(h, w)

SpecPatches == InitPatches /\ [][NextPatches]_vars

\* ------------------------------------------------------------ properties
Initialized == init_args # NoArgs

ValidShape(a) == a.nv1 >= a.nh1 /\ a.nv2 >= a.nh2

ActivationOps ==
    {"activate_hidden", "batch_activate_hidden", "adapt_errors",
     "backward_batch", "compute_gradients"}

PrepareOps == {"prepare_input", "prepare_output", "prepare_one_output"}

\* C1: after init_layer calls with in_h >= out_h and in_w >= out_w the
\* dimension fields hold the arguments of the most recent call, nw1 and nw2
\* are in - out + 1, the weights have the extents (filters, channels,
\* in_h-out_h+1, in_w-out_w+1) and as many elements, and there is one bias
\* per filter.
C1_InitConsistent ==
    (Initialized /\ ValidShape(init_args.a)) =>
        LET a == init_args.a
        IN /\ layer.nc = a.nc /\ layer.nv1 = a.nv1 /\ layer.nv2 = a.nv2
           /\ layer.k = a.k /\ layer.nh1 = a.nh1 /\ layer.nh2 = a.nh2
           /\ layer.nw1 = a.nv1 - a.nh1 + 1
           /\ layer.nw2 = a.nv2 - a.nh2 + 1
           /\ layer.w.dims = <<a.k, a.nc, a.nv1 - a.nh1 + 1, a.nv2 - a.nh2 + 1>>
           /\ Len(layer.w.data) = a.k * a.nc * (a.nv1 - a.nh1 + 1) * (a.nv2 - a.nh2 + 1)
           /\ layer.b.dims = <<a.k>>
           /\ Len(layer.b.data) = a.k

\* init_layer was called again on an initialized layer and left filters of
\* more than one element.
C1_Witness ==
    /\ last.op = "init_layer" /\ last.again
    /\ ValidShape(init_args.a)
    /\ layer.nw1 = 2 /\ layer.nw2 = 2 /\ layer.k = 2
    /\ Len(layer.w.data) = 2 * layer.nc * 2 * 2

\* C2: whatever the layer held before, after init_layer(B) it is the layer
\* that init_layer(B) makes of a freshly constructed one (fields, weights
\* and biases, element for element), and the initializers were given
\* input_size() and output_size() of B.
C2_ReinitReplaces ==
    Initialized =>
        LET a == init_args.a
        IN /\ \A f \in FreshLayers :
                 \A r \in init_layer(f, a, init_args.seed) :
                    r.outcome = "ok" /\ r.layer = layer
           /\ last.op = "init_layer" =>
                 /\ last.w_hints = <<a.nc * a.nv1 * a.nv2, a.k * a.nh1 * a.nh2>>
                 /\ last.b_hints = <<a.nc * a.nv1 * a.nv2, a.k * a.nh1 * a.nh2>>

\* a second init_layer call has just returned
C2_Witness ==
    /\ last.op = "init_layer" /\ last.again
    /\ Len(layer.b.data) = 2
    /\ last.w_hints = <<input_size(layer), output_size(layer)>>

\* C3: on an initialized layer output_size() is filters * out_h * out_w and
\* input_size() is channels * in_h * in_w of the most recent init_layer
\* call, and neither query changes the layer.
C3_Sizes ==
    /\ [](Initialized =>
            /\ last.op = "output_size" =>
                  last.ret = init_args.a.k * init_args.a.nh1 * init_args.a.nh2
            /\ last.op = "input_size" =>
                  last.ret = init_args.a.nc * init_args.a.nv1 * init_args.a.nv2)
    /\ [][last'.op \in {"input_size", "output_size"} =>
            (layer' = layer /\ ctx' = ctx)]_vars

\* output_size() answered on a layer whose filter and output extents differ
C3_Witness ==
    /\ Initialized
    /\ last.op = "output_size"
    /\ last.ret = 8
    /\ layer.nw1 # layer.nh1

\* C5: on an initialized layer the batch path on a batch of one sample gives
\* extents (1, filters, out_h, out_w) and, element for element, what the
\* single-sample path gives on that sample.
C5_BatchOfOne ==
    (/\ Initialized
     /\ last.op = "batch_activate_hidden"
     /\ last.in.dims[1] = 1) =>
        LET a == init_args.a
            v == [dims |-> Tail(last.in.dims), data |-> last.in.data]
            single == activate_hidden(layer, prepare_one_output(layer), v)
        IN /\ last.outcome = "ok"
           /\ last.out.dims = <<1, a.k, a.nh1, a.nh2>>
           /\ single.dims = <<a.k, a.nh1, a.nh2>>
           /\ \A f \in 0..(a.k - 1), i \in 0..(a.nh1 - 1), j \in 0..(a.nh2 - 1) :
                 At4(last.out, 0, f, i, j) = At3(single, f, i, j)

\* a batch of one sample through two filters, with an active output unit
C5_Witness ==
    /\ Initialized
    /\ last.op = "batch_activate_hidden"
    /\ last.in.dims[1] = 1
    /\ layer.k = 2 /\ layer.nh1 = 2
    /\ \E p \in 1..Len(last.out.data) : last.out.data[p] > 0
    /\ \E p \in 1..Len(last.out.data) : last.out.data[p] = 0

\* C6: before init_layer every dimension field is 0, the weights and biases
\* are empty, there is no backup, and the three size queries give 0.
C6_PlaceholderZero ==
    ~Initialized =>
        /\ layer.nc = 0 /\ layer.nv1 = 0 /\ layer.nv2 = 0 /\ layer.k = 0
        /\ layer.nh1 = 0 /\ layer.nh2 = 0 /\ layer.nw1 = 0 /\ layer.nw2 = 0
        /\ layer.w.data = <<>> /\ layer.b.data = <<>>
        /\ layer.bak_w = "nullptr" /\ layer.bak_b = "nullptr"
        /\ input_size(layer) = 0 /\ output_size(layer) = 0 /\ parameters(layer) = 0

\* C7: an activation, backward or gradient call before init_layer ends in
\* UninitializedUse (so a call that succeeds has an init_layer before it).
C7_UninitializedUseFails ==
    (last.op \in ActivationOps /\ ~Initialized) => last.outcome = "UninitializedUse"

\* The unsigned value of a size_t reading s < 0 is 2^64 - Below2Pow64(s).
Below2Pow64(s) == 0 - s

\* the filter extent init_layer leaves for an input extent in and an output
\* extent out: in - out + 1 modulo 2^64
Wrapped(in, out, nw) ==
    /\ out <= in => nw = in - out + 1
    /\ out = in + 1 => nw = 0
    /\ out > in + 1 => (nw < 0 /\ Below2Pow64(nw) = out - in - 1)

ErrorTotal(e, f) ==
    LET N == e.dims[1]  h1 == e.dims[3]  h2 == e.dims[4]
    IN SumTo([q \in 0..(N * h1 * h2 - 1) |->
                 At4(e, q \div (h1 * h2), f, (q \div h2) % h1, q % h2)],
             N * h1 * h2)

\* compute_gradients has returned on a context of n samples of the layer's
\* input and output extents
GradientsTaken ==
    /\ Initialized
    /\ last.op = "compute_gradients"
    /\ Tail(ctx.input.dims) = <<init_args.a.nc, init_args.a.nv1, init_args.a.nv2>>
    /\ Tail(ctx.errors.dims) = <<init_args.a.k, init_args.a.nh1, init_args.a.nh2>>
    /\ ctx.input.dims[1] = ctx.errors.dims[1]

\* C9 as stated: w_grad has the extents of the weights, b_grad those of the
\* biases, and b_grad(f) is the mean of the errors of filter f over the
\* positions and the batch.
C9_BiasGradIsMean ==
    GradientsTaken =>
        /\ last.outcome = "ok"
        /\ ctx.w_grad.dims = layer.w.dims
        /\ ctx.b_grad.dims = layer.b.dims
        /\ \A f \in 0..(init_args.a.k - 1) :
              At1(ctx.b_grad, f).num
                 * (ctx.errors.dims[1] * init_args.a.nh1 * init_args.a.nh2)
              = ErrorTotal(ctx.errors, f) * At1(ctx.b_grad, f).den

\* C9, amended: w_grad has the extents of the weights, b_grad those of the
\* biases, and b_grad(f) is the errors of filter f summed over the batch and
\* averaged over the out_h * out_w positions.
C9_BiasGradSumsBatch ==
    GradientsTaken =>
        /\ last.outcome = "ok"
        /\ ctx.w_grad.dims = layer.w.dims
        /\ ctx.b_grad.dims = layer.b.dims
        /\ Len(ctx.w_grad.data) = Len(layer.w.data)
        /\ Len(ctx.b_grad.data) = init_args.a.k
        /\ \A f \in 0..(init_args.a.k - 1) :
              /\ At1(ctx.b_grad, f).den > 0
              /\ At1(ctx.b_grad, f).num * (init_args.a.nh1 * init_args.a.nh2)
                 = ErrorTotal(ctx.errors, f) * At1(ctx.b_grad, f).den

\* gradients of a batch of two samples whose errors do not cancel
C9_Witness ==
    /\ GradientsTaken
    /\ ctx.errors.dims[1] = 2
    /\ init_args.a.k = 2
    /\ init_args.a.nh1 = 2
    /\ \A f \in 0..1 : ErrorTotal(ctx.errors, f) # 0

\* C10: on an initialized layer none of the activation, prepare, backward
\* and gradient calls changes the layer; adapt_errors changes nothing of the
\* context but errors, backward_batch nothing of it, compute_gradients
\* nothing but w_grad and b_grad.
C10_Frames ==
    [][(Initialized /\ last'.op \in (ActivationOps \cup PrepareOps)) =>
          /\ layer' = layer
          /\ last'.op = "adapt_errors" =>
                /\ ctx'.input = ctx.input /\ ctx'.output = ctx.output
                /\ ctx'.w_grad = ctx.w_grad /\ ctx'.b_grad = ctx.b_grad
          /\ last'.op = "backward_batch" => ctx' = ctx
          /\ last'.op = "compute_gradients" =>
                /\ ctx'.input = ctx.input /\ ctx'.output = ctx.output
                /\ ctx'.errors = ctx.errors
          /\ last'.op \notin {"adapt_errors", "compute_gradients"} => ctx' = ctx]_vars

\* adapt_errors has zeroed an error and compute_gradients has then written
\* gradients, all on an initialized layer
C10_Witness ==
    /\ Initialized
    /\ last.op = "compute_gradients"
    /\ \E p \in 1..Len(ctx.errors.data) :
          ctx.errors.data[p] = 0 /\ ctx.output.data[p] <= 0
    /\ \E p \in 1..Len(ctx.errors.data) : ctx.errors.data[p] # 0
    /\ \E p \in 1..Len(ctx.w_grad.data) : ctx.w_grad.data[p] # 0

\* C4: after activate_hidden on an H x W single-channel image the output
\* holds, in row-major order of (y, x), one patch for each y multiple of
\* v_stride and x multiple of h_stride with y + height <= H and
\* x + width <= W; patch element (0, yy, xx) is input(0, y+yy, x+xx); the
\* count is (floor((H-height)/v_stride)+1) * (floor((W-width)/h_stride)+1)
\* when the window fits and 0 otherwise.
C4_Patches ==
    p_last.op = "activate_hidden" =>
        LET img == p_last.in
            H == img.dims[2]
            W == img.dims[3]
            d == p_desc
            ny == IF H >= d.height THEN ((H - d.height) \div d.v_stride) + 1 ELSE 0
            nx == IF W >= d.width THEN ((W - d.width) \div d.h_stride) + 1 ELSE 0
            positions ==
                { yx \in (0..H) \X (0..W) :
                     /\ yx[1] % d.v_stride = 0 /\ yx[2] % d.h_stride = 0
                     /\ yx[1] + d.height <= H /\ yx[2] + d.width <= W }
        IN /\ Len(h_a) = (IF H >= d.height /\ W >= d.width THEN ny * nx ELSE 0)
           /\ Len(h_a) = Cardinality(positions)
           /\ \A idx \in 1..Len(h_a) :
                 LET y == ((idx - 1) \div nx) * d.v_stride
                     x == ((idx - 1) % nx) * d.h_stride
                 IN /\ <<y, x>> \in positions
                    /\ h_a[idx].dims = <<1, d.height, d.width>>
                    /\ \A yy \in 0..(d.height - 1), xx \in 0..(d.width - 1) :
                          /\ y + yy < H /\ x + xx < W
                          /\ At3(h_a[idx], 0, yy, xx) = At3(img, 0, y + yy, x + xx)

\* the 6 x 6 image under a 3 x 3 window with strides 2: four patches, the
\* last one starting at pixel (2, 2)
C4_Witness ==
    /\ p_last.op = "activate_hidden"
    /\ p_last.in.dims = <<1, 6, 6>>
    /\ p_desc = [width |-> 3, height |-> 3, v_stride |-> 2, h_stride |-> 2]
    /\ Len(h_a) = 4
    /\ At3(h_a[4], 0, 0, 0) = At3(p_last.in, 0, 2, 2)

====
